---- MODULE Spec2Model ----
(***************************************************************************)
(* walk_bg: a dot grid painted into a memory-mapped file and presented on  *)
(* a Wayland layer surface, with a random walk over the grid.              *)
(*                                                                         *)
(* Five specifications over one set of variables:                          *)
(*   Spec      the application: App::new, create_surface, the configure    *)
(*             handler and the walk step of main's loop, each with the     *)
(*             draw it ends in (types.rs, main.rs, utils.rs);              *)
(*   SpecGrid  Grid::visit / Grid::get_visits on small grids (types.rs);   *)
(*   SpecPaint draw_dot_grid on small byte buffers (draw.rs);              *)
(*   SpecLine  draw_line, one loop iteration per step (draw.rs);           *)
(*   SpecDots  draw_dot_grid under configurations of several dot radii.    *)
(* A specification leaves the variables of the others at their idle value. *)
(***************************************************************************)
EXTENDS Integers, Sequences, FiniteSets

VARIABLES
    \* ---- App (types.rs:185-201)
    config,          \* App.config
    layer_surface,   \* App.layer_surface is Some
    width,           \* App.width
    height,          \* App.height
    configured,      \* App.configured
    pool,            \* App.pool: None, or the size the pool was created with
    grid,            \* App.grid: [width, height, visits]
    current_pos,     \* App.current_pos
    file,            \* App.file: the id of the open file behind it
    mmap,            \* App.mmap: None, or the length of the mapping
    \* ---- the operating system and the compositor
    file_len,        \* length of the file App.file
    locked,          \* ids of the open files that hold an exclusive lock
    pools_created,   \* wl_shm.create_pool requests sent
    buffers_created, \* wl_shm_pool.create_buffer requests sent
    last_buffer,     \* None, or the last buffer created
    pc,              \* "running", "panicked" or "sigbus"
    \* ---- history
    last_event,      \* the handler that ran last
    prev_pos,        \* current_pos before the last walk step
    frames,          \* calls of App::draw that got past its early returns
    steps,           \* walk steps since the last configure
    last_paint,      \* None, or the view and dimensions given to draw_dot_grid
    \* ---- SpecGrid
    calls,           \* per cell, the in-bounds calls of visit so far
    other_calls,     \* calls of visit away from the cell under test
    \* ---- SpecPaint
    buf,             \* the byte buffer given to draw_dot_grid
    pin,             \* the inputs of the paint
    first,           \* the buffer after the first paint
    alt,             \* the same paint with the cells taken in pin.order
    \* ---- SpecLine
    ln               \* draw_line's locals and the points it went through

vars == <<config, layer_surface, width, height, configured, pool, grid,
          current_pos, file, mmap, file_len, locked, pools_created,
          buffers_created, last_buffer, pc, last_event, prev_pos, frames,
          steps, last_paint, calls, other_calls, buf, pin, first, alt, ln>>

appVars == <<config, layer_surface, width, height, configured, pool,
             current_pos, file, mmap, file_len, locked, pools_created,
             buffers_created, last_buffer, pc, prev_pos, frames,
             steps, last_paint>>
gridVars == <<calls, other_calls>>
paintVars == <<buf, pin, first, alt>>

\* Option<T>: None is the empty tuple, Some(v) the tuple of v
None == <<>>
Some(v) == <<v>>

Min(a, b) == IF a < b THEN a ELSE b
Abs(a) == IF a < 0 THEN -a ELSE a

\* ------------------------------------------------------------------ bounds
\* draws of one run of the application
MaxFrames == 4
\* calls of visit at the cell under test: past the u8 maximum
MaxVisitCalls == 257
\* calls of visit elsewhere, in or out of bounds
MaxOtherCalls == 2
\* endpoints of draw_line lie in -MaxCoord..MaxCoord
MaxCoord == 5

\* ------------------------------------------------------------------ Config
\* types.rs:43-54, Config::default
DefaultPixelsPerPoint == 20
DefaultDotRadius == 2
\* A u32 colour is written as its four bytes, most significant first:
\* 0xff1a1a1a, 0xff606060, 0xffff0000.
DefaultBgColor == <<255, 26, 26, 26>>
DefaultFgColor == <<255, 96, 96, 96>>
DefaultActiveColor == <<255, 255, 0, 0>>

\* u32::to_le_bytes, as a tuple indexed from 1: least significant byte first
to_le_bytes(c) == <<c[4], c[3], c[2], c[1]>>

\* a wider dot
DotRadiusWide == 2 + 1

\* draw.rs:15: the radius draw_dot_grid uses
dot_radius == 2

\* The two flags draw_dot_grid reads through Config::connect_dots and
\* Config::display_active_field; the source holds neither the fields nor the
\* accessors, so they are fields of the configuration as the specification
\* describes them.
connect_dots(c) == c.connect_dots
display_active_field(c) == c.display_active_field

ConfigOf(ppp, connect, active) ==
    [pixels_per_point |-> ppp,
     dot_radius |-> DefaultDotRadius,
     bg_color |-> DefaultBgColor,
     fg_color |-> DefaultFgColor,
     active_color |-> DefaultActiveColor,
     connect_dots |-> connect,
     display_active_field |-> active]

\* ------------------------------------------------------------------ Grid
\* Grid::new
GridNew(w, h) ==
    [width |-> w, height |-> h, visits |-> [i \in 0..(w * h - 1) |-> 0]]

\* Grid::resize: resize, then fill(0)
GridResize(g, w, h) ==
    [width |-> w, height |-> h, visits |-> [i \in 0..(w * h - 1) |-> 0]]

\* u8::saturating_add(1)
SaturatingAdd1(v) == IF v >= 255 THEN 255 ELSE v + 1

\* a visit with no bounds check and a wrapping counter
GridVisitUnchecked(g, x, y) ==
    LET idx == y * g.width + x
    IN  IF idx \in DOMAIN g.visits
        THEN [g EXCEPT !.visits[idx] = (g.visits[idx] + 1) % 256]
        ELSE g

\* Grid::visit
GridVisit(g, x, y) ==
    IF x < g.width /\ y < g.height
    THEN LET idx == y * g.width + x
         IN  [g EXCEPT !.visits[idx] = SaturatingAdd1(g.visits[idx])]
    ELSE g

\* Grid::get_visits
get_visits(g, x, y) ==
    IF x < g.width /\ y < g.height
    THEN g.visits[y * g.width + x]
    ELSE 0

\* ------------------------------------------------------------------ utils
\* u32::saturating_sub(1)
SaturatingSub1(v) == IF v = 0 THEN 0 ELSE v - 1

\* a step that does not clamp at the right and bottom edges
random_walk_step_unclamped(x, y, w, h, direction) ==
    CASE direction = 0 -> <<x, SaturatingSub1(y)>>
      [] direction = 1 -> <<x + 1, y>>
      [] direction = 2 -> <<x, y + 1>>
      [] direction = 3 -> <<SaturatingSub1(x), y>>
      [] OTHER -> <<x, y>>

\* random_walk_step; direction is random % 4
random_walk_step(x, y, w, h, direction) ==
    CASE direction = 0 -> <<x, SaturatingSub1(y)>>
      [] direction = 1 -> <<Min(x + 1, w - 1), y>>
      [] direction = 2 -> <<x, Min(y + 1, h - 1)>>
      [] direction = 3 -> <<SaturatingSub1(x), y>>
      [] OTHER -> <<x, y>>

\* ------------------------------------------------------------------ App
\* The idle value of the variables a specification does not use.
Idle == "idle"

\* App::new: two temporary files are created; the lock is taken on the first
\* (the local `file`, types.rs:205-206), the second becomes App.file
\* (types.rs:223), and the first is dropped, closed and so unlocked, when
\* new returns.
LockedTempfile == "tempfile@205"
BackingTempfile == "tempfile@223"
AppNew ==
    LET open == {LockedTempfile, BackingTempfile} \ {LockedTempfile}
    IN  [file |-> BackingTempfile,
         locked |-> {LockedTempfile} \cap open,
         width |-> 0, height |-> 0, configured |-> FALSE,
         pool |-> None, mmap |-> None,
         grid |-> GridNew(0, 0), current_pos |-> <<0, 0>>]

\* configure's fallback dimensions, types.rs:447-448
FallbackWidth == 1920
FallbackHeight == 1080

\* The sizes a configure event carries, and the spacings of the configuration.
ConfigureSizes == {0, 40, 100}
AppSpacings == {DefaultPixelsPerPoint, 50}

\* (dim / pixels_per_point) + 1, types.rs:453-454 and draw.rs:29-30
GridDim(dim, spacing) == (dim \div spacing) + 1

\* a centre one cell off
GridCenterOff(gw, gh) == <<(gw \div 2) + 1, gh \div 2>>

\* types.rs:456
GridCenter(gw, gh) == <<gw \div 2, gh \div 2>>

\* writes through the mapping that are not checked against its length
PaintOutcomeUnchecked(m, flen, size) ==
    IF Min(m, size) > 0 /\ flen = 0 THEN "sigbus" ELSE "running"

\* What becomes of the process while draw_dot_grid writes through a mapping
\* of m bytes over a file of flen bytes, for dimensions that need size bytes:
\* the background fill writes offsets 0, 1, ... in order; a write to a mapped
\* page past the end of an empty file raises SIGBUS, an index at or past the
\* length of the mapping panics.
PaintOutcome(m, flen, size) ==
    IF Min(m, size) > 0 /\ flen = 0 THEN "sigbus"
    ELSE IF m < size THEN "panicked"
    ELSE "running"

\* App::draw, called with the fields as they stand at the call.
Draw(cfgd, w, h, g, pos, flen) ==
    IF ~cfgd \/ w = 0 \/ h = 0 \/ ~layer_surface
    THEN /\ grid' = g
         /\ UNCHANGED <<mmap, pool, pools_created, buffers_created,
                        last_buffer, pc, frames, last_paint>>
    ELSE LET stride == w * 4
             size == stride * h
             \* types.rs:308-311: mapped once, over the file as long as it
             \* is then; an empty file gives an empty mapping
             m == IF mmap = None THEN flen ELSE mmap[1]
             g2 == GridVisit(g, pos[1], pos[2])
             outcome == PaintOutcome(m, flen, size)
         IN  /\ mmap' = Some(m)
             /\ grid' = g2
             /\ frames' = frames + 1
             /\ last_paint' = Some([len |-> m, width |-> w, height |-> h])
             /\ pc' = outcome
             /\ IF outcome = "running"
                THEN /\ pool' = (IF pool = None THEN Some(size) ELSE pool)
                     /\ pools_created' =
                            (IF pool = None THEN pools_created + 1
                                            ELSE pools_created)
                     /\ buffers_created' = buffers_created + 1
                     /\ last_buffer' =
                            Some([width |-> w, height |-> h, stride |-> stride,
                                  pool_size |-> (IF pool = None THEN size
                                                                ELSE pool[1])])
                ELSE UNCHANGED <<pool, pools_created, buffers_created,
                                 last_buffer>>

Init ==
    /\ config \in {ConfigOf(ppp, FALSE, TRUE) : ppp \in AppSpacings}
    /\ layer_surface = FALSE
    /\ width = AppNew.width
    /\ height = AppNew.height
    /\ configured = AppNew.configured
    /\ pool = AppNew.pool
    /\ grid = AppNew.grid
    /\ current_pos = AppNew.current_pos
    /\ file = AppNew.file
    /\ mmap = AppNew.mmap
    /\ file_len = 0
    /\ locked = AppNew.locked
    /\ pools_created = 0
    /\ buffers_created = 0
    /\ last_buffer = None
    /\ pc = "running"
    /\ last_event = "new"
    /\ prev_pos = <<0, 0>>
    /\ frames = 0
    /\ steps = 0
    /\ last_paint = None
    /\ calls = Idle /\ other_calls = Idle
    /\ buf = Idle /\ pin = Idle /\ first = Idle /\ alt = Idle
    /\ ln = Idle

\* App::create_surface
CreateSurface ==
    /\ pc = "running"
    /\ ~layer_surface
    /\ layer_surface' = TRUE
    /\ last_event' = "create_surface"
    /\ UNCHANGED <<config, width, height, configured, pool, grid, current_pos,
                   file, mmap, file_len, locked, pools_created,
                   buffers_created, last_buffer, pc, prev_pos, frames, steps,
                   last_paint, gridVars, paintVars, ln>>

\* LayerShellHandler::configure, with the draw it ends in
Configure(nw, nh) ==
    /\ pc = "running"
    /\ layer_surface
    /\ frames < MaxFrames
    /\ LET w == IF nw = 0 \/ nh = 0 THEN FallbackWidth ELSE nw
           h == IF nw = 0 \/ nh = 0 THEN FallbackHeight ELSE nh
           \* types.rs:442, on the sizes as the event carries them; the
           \* sizes of the model stay far below the width of a u32
           flen == nw * 4 * nh
           gw == GridDim(w, config.pixels_per_point)
           gh == GridDim(h, config.pixels_per_point)
           pos == GridCenter(gw, gh)
       IN  /\ width' = w
           /\ height' = h
           /\ file_len' = flen
           /\ current_pos' = pos
           /\ configured' = TRUE
           /\ Draw(TRUE, w, h, GridResize(grid, gw, gh), pos, flen)
    /\ last_event' = "configure"
    /\ steps' = 0
    /\ UNCHANGED <<config, layer_surface, file, locked, prev_pos,
                   gridVars, paintVars, ln>>

\* main.rs:48-64: one walk step and its redraw
WalkStep(direction) ==
    /\ pc = "running"
    /\ configured
    /\ frames < MaxFrames
    /\ LET new == random_walk_step(current_pos[1], current_pos[2],
                                   grid.width, grid.height, direction)
       IN  /\ current_pos' = new
           /\ Draw(configured, width, height, grid, new, file_len)
    /\ prev_pos' = current_pos
    /\ last_event' = "walk"
    /\ steps' = steps + 1
    /\ UNCHANGED <<config, layer_surface, width, height, configured, file,
                   file_len, locked, gridVars, paintVars, ln>>

Next ==
    \/ CreateSurface
    \/ \E nw \in ConfigureSizes, nh \in ConfigureSizes : Configure(nw, nh)
    \/ \E direction \in 0..3 : WalkStep(direction)

Spec == Init /\ [][Next]_vars

\* ------------------------------------------------------------------ claims
\* about the application (Spec)

\* C1: at every paint, the byte size of the view handed to draw_dot_grid is
\* width * 4 * height of the dimensions in force.
C1_PaintViewMatchesDims ==
    last_paint # None =>
        last_paint[1].len = last_paint[1].width * 4 * last_paint[1].height

\* C2: after every configure event the backing file is width * 4 * height
\* bytes long for the dimensions the surface then uses, the 1920x1080
\* fallback included.
C2_BackingStoreLen ==
    configured => file_len = width * 4 * height

\* C3: the shared-memory pool and the buffer object are each created at most
\* once, whatever the number of frames.
C3_PoolAndBufferOnce ==
    pools_created <= 1 /\ buffers_created <= 1

\* The cells of a grid.
Cells(g) == (0..(g.width - 1)) \X (0..(g.height - 1))

\* The scenario of C4: spacing 50, the last configure was to 100x100.
C4_Scenario ==
    /\ configured
    /\ config.pixels_per_point = 50
    /\ width = 100 /\ height = 100

C4_Start ==
    (C4_Scenario /\ steps = 0) =>
        /\ grid.width = 3 /\ grid.height = 3
        /\ current_pos = <<1, 1>>

C4_Moved ==
    (C4_Scenario /\ steps = 1) =>
        current_pos \in {<<1, 0>>, <<2, 1>>, <<1, 2>>, <<0, 1>>}

\* C4 as stated: after a configure to 100x100 with spacing 50 the grid is 3x3
\* and the position (1,1); one step moves to a 4-neighbour of (1,1); after
\* the step and its redraw the new position counts 1 visit and every other
\* cell 0.
C4_EndToEnd ==
    /\ C4_Start
    /\ C4_Moved
    /\ (C4_Scenario /\ steps = 1) =>
           \A c \in Cells(grid) :
               get_visits(grid, c[1], c[2]) = (IF c = current_pos THEN 1 ELSE 0)

\* C4 amended: as C4, but after the step the new position and the starting
\* cell (1,1), which the draw of the configure visited, count 1 visit each
\* and every other cell 0.
C4_EndToEndAmended ==
    /\ C4_Start
    /\ C4_Moved
    /\ (C4_Scenario /\ steps = 1) =>
           \A c \in Cells(grid) :
               get_visits(grid, c[1], c[2]) =
                   (IF c = current_pos \/ c = <<1, 1>> THEN 1 ELSE 0)

\* The step of the scenario has been taken and redrawn.
C4_Witness ==
    /\ C4_Scenario
    /\ steps = 1
    /\ last_event = "walk"
    /\ pc = "running"
    /\ buffers_created = 2

\* C5: once configured, the walk position lies inside the current grid, and
\* a walk step changes at most one coordinate, by exactly one: it clamps at
\* the edges.
C5_WalkInBounds ==
    configured =>
        /\ current_pos[1] >= 0 /\ current_pos[1] < grid.width
        /\ current_pos[2] >= 0 /\ current_pos[2] < grid.height
        /\ last_event = "walk" =>
               Abs(current_pos[1] - prev_pos[1])
                   + Abs(current_pos[2] - prev_pos[2]) <= 1

\* A step towards the bottom edge of a grid three cells wide was clamped.
C5_Witness ==
    /\ configured
    /\ last_event = "walk"
    /\ grid.width = 3 /\ grid.height = 1
    /\ prev_pos = <<1, 0>>
    /\ current_pos = prev_pos

\* C7: the file that serves as the backing store holds the exclusive lock.
C7_BackingStoreLocked ==
    file \in locked

\* ------------------------------------------------------------------ SpecGrid
\* Grid::visit and Grid::get_visits on their own: one cell, calls.at, is
\* visited up to MaxVisitCalls times while up to MaxOtherCalls other calls,
\* at other cells or one past an edge, come in between.
GridShapes == {<<1, 1>>, <<2, 2>>, <<3, 1>>}

InitGrid ==
    /\ \E shape \in GridShapes :
           /\ grid = GridNew(shape[1], shape[2])
           /\ \E at \in Cells(GridNew(shape[1], shape[2])) :
                  calls = [at |-> at,
                           n |-> [c \in Cells(GridNew(shape[1], shape[2])) |-> 0]]
    /\ other_calls = 0
    /\ last_event = "new"
    /\ config = Idle /\ layer_surface = Idle /\ width = Idle /\ height = Idle
    /\ configured = Idle /\ pool = Idle /\ current_pos = Idle /\ file = Idle
    /\ mmap = Idle /\ file_len = Idle /\ locked = Idle /\ pools_created = Idle
    /\ buffers_created = Idle /\ last_buffer = Idle /\ pc = Idle
    /\ prev_pos = Idle /\ frames = Idle /\ steps = Idle /\ last_paint = Idle
    /\ buf = Idle /\ pin = Idle /\ first = Idle /\ alt = Idle
    /\ ln = Idle

\* grid.visit(x, y) at the cell under test
VisitCell ==
    /\ calls.n[calls.at] < MaxVisitCalls
    /\ grid' = GridVisit(grid, calls.at[1], calls.at[2])
    /\ calls' = [calls EXCEPT !.n[calls.at] = @ + 1]
    /\ last_event' = "visit"
    /\ UNCHANGED <<other_calls, appVars, paintVars, ln>>

\* grid.visit(x, y) elsewhere: another cell, or coordinates out of bounds
VisitElsewhere(x, y) ==
    /\ other_calls < MaxOtherCalls
    /\ <<x, y>> # calls.at
    /\ grid' = GridVisit(grid, x, y)
    /\ calls' = IF <<x, y>> \in Cells(grid)
                THEN [calls EXCEPT !.n[<<x, y>>] = @ + 1]
                ELSE calls
    /\ other_calls' = other_calls + 1
    /\ last_event' = IF <<x, y>> \in Cells(grid) THEN "visit"
                                                  ELSE "visit_out_of_bounds"
    /\ UNCHANGED <<appVars, paintVars, ln>>

NextGrid ==
    \/ VisitCell
    \/ \E x \in 0..grid.width, y \in 0..grid.height : VisitElsewhere(x, y)

SpecGrid == InitGrid /\ [][NextGrid]_vars

\* C6: for every cell inside the bounds, get_visits after n calls of visit
\* at it is min(n, 255), and calls of visit out of bounds change no counter
\* (calls.n counts the in-bounds calls alone).
C6_VisitsSaturate ==
    \A c \in Cells(grid) :
        get_visits(grid, c[1], c[2]) = Min(calls.n[c], 255)

\* The cell under test was visited more than 255 times, and the last call
\* was out of bounds.
C6_Witness ==
    /\ calls.n[calls.at] > 255
    /\ get_visits(grid, calls.at[1], calls.at[2]) = 255
    /\ last_event = "visit_out_of_bounds"

\* ------------------------------------------------------------------ draw_line
\* A buffer is a function from the byte offsets 0..n-1 to bytes. A write at
\* an offset past its end panics in the source; the paints of this module
\* are given buffers of at least width * height * 4 bytes.
PutPixel(b, w, x, y, color) ==
    LET offset == (y * w + x) * 4
    IN  [b EXCEPT ![offset] = color[1], ![offset + 1] = color[2],
                  ![offset + 2] = color[3], ![offset + 3] = color[4]]

\* the clip test of draw.rs:107 and draw.rs:138
InBounds(w, h, x, y) == x >= 0 /\ x < w /\ y >= 0 /\ y < h

\* draw.rs:129-135: the locals of draw_line before its loop
LineLocals(x0, y0, x1, y1) ==
    [dx |-> Abs(x1 - x0), dy |-> Abs(y1 - y0),
     sx |-> IF x0 < x1 THEN 1 ELSE -1,
     sy |-> IF y0 < y1 THEN 1 ELSE -1,
     err |-> Abs(x1 - x0) - Abs(y1 - y0),
     x |-> x0, y |-> y0]

\* an advance along one axis only at each iteration
LineAdvanceOneAxis(l) ==
    LET e2 == 2 * l.err
    IN  IF e2 > -l.dy
        THEN [l EXCEPT !.err = l.err - l.dy, !.x = l.x + l.sx]
        ELSE [l EXCEPT !.err = l.err + l.dx, !.y = l.y + l.sy]

\* draw.rs:150-158: the end of one iteration of the loop
LineAdvance(l) ==
    LET e2 == 2 * l.err
        l1 == IF e2 > -l.dy
              THEN [l EXCEPT !.err = l.err - l.dy, !.x = l.x + l.sx]
              ELSE l
    IN  IF e2 < l.dx
        THEN [l1 EXCEPT !.err = l1.err + l.dx, !.y = l1.y + l.sy]
        ELSE l1

\* draw.rs:137-159: the loop of draw_line, from the locals l
RECURSIVE LineLoop(_, _, _, _, _, _, _)
LineLoop(b, w, h, l, x1, y1, color) ==
    LET b1 == IF InBounds(w, h, l.x, l.y) THEN PutPixel(b, w, l.x, l.y, color)
                                         ELSE b
    IN  IF l.x = x1 /\ l.y = y1
        THEN b1
        ELSE LineLoop(b1, w, h, LineAdvance(l), x1, y1, color)

\* draw_line
draw_line(b, w, h, x0, y0, x1, y1, color) ==
    LineLoop(b, w, h, LineLocals(x0, y0, x1, y1), x1, y1, color)

\* ------------------------------------------------------------------ SpecLine
\* draw_line one iteration at a time, on a canvas of LineCanvas x LineCanvas
\* pixels, for endpoints in and just outside it.
LineCanvas == MaxCoord + 1
LineCoords == (-1)..MaxCoord
\* The loop has no bound of its own; the model stops a run this long.
LineStepCap == 4 * MaxCoord + 8

InitLine ==
    /\ \E x0 \in LineCoords, y0 \in LineCoords,
          x1 \in LineCoords, y1 \in LineCoords :
           ln = [x0 |-> x0, y0 |-> y0, x1 |-> x1, y1 |-> y1,
                 l |-> LineLocals(x0, y0, x1, y1),
                 pts |-> <<>>, written |-> <<>>, pc |-> "loop"]
    /\ config = Idle /\ layer_surface = Idle /\ width = Idle /\ height = Idle
    /\ configured = Idle /\ pool = Idle /\ current_pos = Idle /\ file = Idle
    /\ mmap = Idle /\ file_len = Idle /\ locked = Idle /\ pools_created = Idle
    /\ buffers_created = Idle /\ last_buffer = Idle /\ pc = Idle
    /\ prev_pos = Idle /\ frames = Idle /\ steps = Idle /\ last_paint = Idle
    /\ grid = Idle /\ last_event = Idle
    /\ calls = Idle /\ other_calls = Idle
    /\ buf = Idle /\ pin = Idle /\ first = Idle /\ alt = Idle

\* draw.rs:137-159: one iteration: plot the point if it is on the canvas,
\* stop at the endpoint, advance otherwise
LineStep ==
    /\ ln.pc = "loop"
    /\ Len(ln.pts) < LineStepCap
    /\ LET p == <<ln.l.x, ln.l.y>>
           on == InBounds(LineCanvas, LineCanvas, p[1], p[2])
       IN  ln' = [ln EXCEPT
                     !.pts = Append(@, p),
                     !.written = IF on THEN Append(@, p) ELSE @,
                     !.pc = IF p = <<ln.x1, ln.y1>> THEN "done" ELSE "loop",
                     !.l = IF p = <<ln.x1, ln.y1>> THEN @ ELSE LineAdvance(@)]
    /\ UNCHANGED <<appVars, grid, last_event, gridVars, paintVars>>

NextLine == LineStep

SpecLine == InitLine /\ [][NextLine]_vars

\* The loop is the only thing draw_line does: once called it keeps running.
FairSpecLine == SpecLine /\ WF_vars(LineStep)

\* the points 1..n of the straight run from (0,0) in direction (ux,uy)
Run(n, ux, uy) == [i \in 1..n |-> <<(i - 1) * ux, (i - 1) * uy>>]

LinePath ==
    /\ Len(ln.pts) >= 1 => ln.pts[1] = <<ln.x0, ln.y0>>
    /\ \A i \in 1..(Len(ln.pts) - 1) :
           /\ Abs(ln.pts[i + 1][1] - ln.pts[i][1]) <= 1
           /\ Abs(ln.pts[i + 1][2] - ln.pts[i][2]) <= 1
    /\ ln.pc = "done" =>
           /\ ln.pts[Len(ln.pts)] = <<ln.x1, ln.y1>>
           /\ <<ln.x0, ln.y0, ln.x1, ln.y1>> = <<0, 0, 5, 0>> =>
                  ln.written = Run(6, 1, 0)
           /\ <<ln.x0, ln.y0, ln.x1, ln.y1>> = <<0, 0, 3, 3>> =>
                  ln.written = Run(4, 1, 1)
           /\ <<ln.x0, ln.y0, ln.x1, ln.y1>> = <<2, 2, 2, 2>> =>
                  ln.written = << <<2, 2>> >>

\* C10: for any two endpoints, equal in x, in y or in both included,
\* draw_line terminates, its first point is (x0,y0), its last (x1,y1), and
\* consecutive points differ by at most one in x and in y; (0,0)->(5,0)
\* plots 6 pixels, (0,0)->(3,3) plots 4 and (2,2)->(2,2) plots one.
C10_LineConnectedAndTerminates ==
    /\ []LinePath
    /\ <>(ln.pc = "done")

\* The diagonal (0,0)->(3,3) has been drawn to its end.
C10_Witness ==
    /\ ln.pc = "done"
    /\ <<ln.x0, ln.y0, ln.x1, ln.y1>> = <<0, 0, 3, 3>>
    /\ Len(ln.written) = 4

\* ------------------------------------------------------------------ draw_dot_grid
\* a fill that leaves the buffer as it was
FillNothing(b, w, h, color) == b

\* draw.rs:17-25: every pixel of the width x height image gets the colour
Fill(b, w, h, color) ==
    [i \in DOMAIN b |-> IF i < w * h * 4 THEN color[(i % 4) + 1] ELSE b[i]]

\* draw.rs:44-47: (c as f32 + (ceiling - c as f32) * intensity) as u8 with
\* intensity = (visit_count as f32 / 10.0).min(1.0). For every byte c, every
\* ceiling of the source and every count 0..255 the f32 result, truncated,
\* is this integer.
Blend(c, ceiling, visit_count) ==
    IF visit_count >= 10 THEN ceiling
    ELSE (c * 10 + (ceiling - c) * visit_count) \div 10

\* draw.rs:32-37: (c as f32 * 0.5) as u8
Half(c) == c \div 2

\* draw.rs:95-114: the disk of radius dot_radius around (cx, cy), clipped
DrawDot(b, w, h, cx, cy, color) ==
    [i \in DOMAIN b |->
        IF i < w * h * 4
        THEN LET dx == ((i \div 4) % w) - cx
                 dy == ((i \div 4) \div w) - cy
             IN  IF /\ dx >= -dot_radius /\ dx <= dot_radius
                    /\ dy >= -dot_radius /\ dy <= dot_radius
                    /\ dx * dx + dy * dy <= dot_radius * dot_radius
                 THEN color[(i % 4) + 1]
                 ELSE b[i]
        ELSE b[i]]

\* draw.rs:42-114: the body of the loop over the cells, for the cell c
PaintCell(b, w, h, cfg, g, pos, c) ==
    LET fg == to_le_bytes(cfg.fg_color)
        spacing == cfg.pixels_per_point
        grid_width == GridDim(w, spacing)
        grid_height == GridDim(h, spacing)
        connection_color == <<Half(fg[1]), Half(fg[2]), Half(fg[3]), 255>>
        grid_x == c[1]
        grid_y == c[2]
        visit_count == get_visits(g, grid_x, grid_y)
        highlight == c = pos /\ display_active_field(cfg)
        hl == to_le_bytes(cfg.active_color)
        r == IF highlight THEN hl[3] ELSE Blend(fg[3], 255, visit_count)
        gr == IF highlight THEN hl[2] ELSE Blend(fg[2], 200, visit_count)
        bl == IF highlight THEN hl[1] ELSE Blend(fg[1], 100, visit_count)
        dot_color == <<bl, gr, r, 255>>
        center_x == grid_x * spacing
        center_y == grid_y * spacing
        edges == connect_dots(cfg) /\ visit_count > 0
        b1 == IF /\ edges
                 /\ grid_x + 1 < grid_width
                 /\ get_visits(g, grid_x + 1, grid_y) > 0
              THEN draw_line(b, w, h, center_x, center_y,
                             (grid_x + 1) * spacing, center_y, connection_color)
              ELSE b
        b2 == IF /\ edges
                 /\ grid_y + 1 < grid_height
                 /\ get_visits(g, grid_x, grid_y + 1) > 0
              THEN draw_line(b1, w, h, center_x, center_y,
                             center_x, (grid_y + 1) * spacing, connection_color)
              ELSE b1
    IN  DrawDot(b2, w, h, center_x, center_y, dot_color)

\* the cells painted one after the other, in the order of the sequence
RECURSIVE PaintCells(_, _, _, _, _, _, _)
PaintCells(b, w, h, cfg, g, pos, cells) ==
    IF cells = <<>> THEN b
    ELSE PaintCells(PaintCell(b, w, h, cfg, g, pos, Head(cells)),
                    w, h, cfg, g, pos, Tail(cells))

\* draw.rs:39-40: the cells row by row
RowMajor(gw, gh) == [k \in 1..(gw * gh) |-> <<(k - 1) % gw, (k - 1) \div gw>>]

\* draw_dot_grid with its loop taking the cells in the given order
PaintInOrder(b, w, h, cfg, g, pos, cells) ==
    PaintCells(Fill(b, w, h, to_le_bytes(cfg.bg_color)), w, h, cfg, g, pos, cells)

\* draw_dot_grid
draw_dot_grid(b, w, h, cfg, g, pos) ==
    PaintInOrder(b, w, h, cfg, g, pos,
                 RowMajor(GridDim(w, cfg.pixels_per_point),
                          GridDim(h, cfg.pixels_per_point)))

\* ------------------------------------------------------------------ SpecPaint
\* draw_dot_grid on small images: <<width, height, pixels_per_point>>. The
\* first two give grids of 2x2 and 2x1 cells whose dots stand apart, the
\* third a grid of 2x2 cells whose dots overlap.
PaintShapes == {<<6, 6, 5>>, <<6, 3, 5>>, <<4, 4, 3>>}
\* the visit counts of a cell
PaintVisitCounts == {0, 3}

\* the buffers a paint may be given: all zero, or bytes left by an earlier
\* use, of the size of the image or longer
PriorBuffers(size) ==
    {[i \in 0..(size - 1) |-> 0],
     [i \in 0..(size - 1) |-> (i * 7 + 3) % 256],
     [i \in 0..(size + 3) |-> (i * 7 + 3) % 256]}

\* the orders in which each cell of the sequence comes exactly once
Permutations(cells) ==
    LET n == Len(cells)
    IN  {[i \in 1..n |-> cells[p[i]]] :
            p \in {f \in [1..n -> 1..n] : \A i, j \in 1..n : f[i] = f[j] => i = j}}

InitPaint ==
    /\ \E shape \in PaintShapes, connect \in BOOLEAN, active \in BOOLEAN :
         LET w == shape[1]
             h == shape[2]
             gw == GridDim(w, shape[3])
             gh == GridDim(h, shape[3])
         IN  /\ config = ConfigOf(shape[3], connect, active)
             /\ \E v \in [0..(gw * gh - 1) -> PaintVisitCounts],
                   pos \in {<<0, 0>>, <<gw - 1, gh - 1>>},
                   order \in Permutations(RowMajor(gw, gh)),
                   prior \in PriorBuffers(w * h * 4) :
                    /\ grid = [width |-> gw, height |-> gh, visits |-> v]
                    /\ pin = [width |-> w, height |-> h, current_pos |-> pos,
                              order |-> order, prior |-> prior, paints |-> 0]
                    /\ buf = prior
    /\ first = None
    /\ alt = None
    /\ layer_surface = Idle /\ width = Idle /\ height = Idle
    /\ configured = Idle /\ pool = Idle /\ current_pos = Idle /\ file = Idle
    /\ mmap = Idle /\ file_len = Idle /\ locked = Idle /\ pools_created = Idle
    /\ buffers_created = Idle /\ last_buffer = Idle /\ pc = Idle
    /\ prev_pos = Idle /\ frames = Idle /\ steps = Idle /\ last_paint = Idle
    /\ last_event = Idle
    /\ calls = Idle /\ other_calls = Idle
    /\ ln = Idle

\* The first call of draw_dot_grid on the buffer; alt is the same paint with
\* the cells taken in pin.order.
Paint ==
    /\ pin.paints = 0
    /\ buf' = draw_dot_grid(buf, pin.width, pin.height, config, grid,
                            pin.current_pos)
    /\ first' = Some(buf')
    /\ alt' = Some(PaintInOrder(buf, pin.width, pin.height, config, grid,
                                pin.current_pos, pin.order))
    /\ pin' = [pin EXCEPT !.paints = 1]
    /\ UNCHANGED <<config, layer_surface, width, height, configured, pool,
                   grid, current_pos, file, mmap, file_len, locked,
                   pools_created, buffers_created, last_buffer, pc, last_event,
                   prev_pos, frames, steps, last_paint, gridVars, ln>>

\* A second call with the same width, height, config, grid and position.
PaintAgain ==
    /\ pin.paints = 1
    /\ buf' = draw_dot_grid(buf, pin.width, pin.height, config, grid,
                            pin.current_pos)
    /\ pin' = [pin EXCEPT !.paints = 2]
    /\ UNCHANGED <<first, alt>>
    /\ UNCHANGED <<config, layer_surface, width, height, configured, pool,
                   grid, current_pos, file, mmap, file_len, locked,
                   pools_created, buffers_created, last_buffer, pc, last_event,
                   prev_pos, frames, steps, last_paint, gridVars, ln>>

NextPaint ==
    \/ Paint
    \/ PaintAgain

SpecPaint == InitPaint /\ [][NextPaint]_vars

\* the bytes of the width x height image at the head of a buffer
Image(b, w, h) == [i \in 0..(w * h * 4 - 1) |-> b[i]]

\* C8: two paints with identical width, height, config, grid and position
\* leave byte-identical buffers, and the image painted does not depend on
\* what the buffer held before: it is the image painted over zeroes.
C8_PaintIdempotent ==
    /\ pin.paints = 2 => buf = first[1]
    /\ pin.paints >= 1 =>
           Image(buf, pin.width, pin.height) =
               Image(draw_dot_grid([i \in DOMAIN buf |-> 0], pin.width,
                                   pin.height, config, grid, pin.current_pos),
                     pin.width, pin.height)

\* Painted twice over bytes left by an earlier use.
C8_Witness ==
    /\ pin.paints = 2
    /\ pin.prior[0] # 0
    /\ buf = first[1]
    /\ buf # pin.prior

\* every cell comes before its right and its bottom neighbour
NeighboursLater(order) ==
    \A i, j \in 1..Len(order) :
        (\/ order[j] = <<order[i][1] + 1, order[i][2]>>
         \/ order[j] = <<order[i][1], order[i][2] + 1>>) => i < j

\* C9 as stated: whatever the order in which the cells are taken, each
\* exactly once, the paint yields the bytes of the row-major order, also
\* with connective edges between visited neighbours.
C9_OrderIrrelevant ==
    pin.paints >= 1 => alt = first

\* C9 amended: the paint yields the bytes of the row-major order whatever
\* the order of the cells when the dots of different cells do not overlap
\* (pixels_per_point > 4, twice the dot radius) and either connective edges
\* are off or every cell is taken before its right and bottom neighbours.
C9_OrderIrrelevantAmended ==
    (/\ pin.paints >= 1
     /\ config.pixels_per_point > 4
     /\ (~connect_dots(config) \/ NeighboursLater(pin.order))) => alt = first

\* Edges on, all four cells visited, an order other than row-major that
\* takes every cell before its right and bottom neighbours.
C9_Witness ==
    /\ pin.paints >= 1
    /\ config.pixels_per_point > 4
    /\ connect_dots(config)
    /\ grid.width = 2 /\ grid.height = 2
    /\ \A c \in Cells(grid) : get_visits(grid, c[1], c[2]) > 0
    /\ pin.order # RowMajor(2, 2)
    /\ NeighboursLater(pin.order)
    /\ alt = first

\* ------------------------------------------------------------------ SpecDots
\* draw_dot_grid under configurations that set dot_radius (types.rs:29),
\* on images whose cells stand further apart than twice the radius.
DotShapes == {<<6, 6, 5>>, <<8, 4, 7>>}
DotRadii == {1, DefaultDotRadius, 3}

\* Config::get_dot_radius
get_dot_radius(c) == c.dot_radius

InitDots ==
    /\ \E shape \in DotShapes, connect \in BOOLEAN, active \in BOOLEAN,
          radius \in DotRadii :
         LET w == shape[1]
             h == shape[2]
             gw == GridDim(w, shape[3])
             gh == GridDim(h, shape[3])
         IN  /\ config = [ConfigOf(shape[3], connect, active)
                              EXCEPT !.dot_radius = radius]
             /\ \E v \in [0..(gw * gh - 1) -> PaintVisitCounts],
                   pos \in {<<0, 0>>, <<gw - 1, gh - 1>>} :
                    /\ grid = [width |-> gw, height |-> gh, visits |-> v]
                    /\ pin = [width |-> w, height |-> h, current_pos |-> pos,
                              order |-> RowMajor(gw, gh),
                              prior |-> [i \in 0..(w * h * 4 - 1) |-> 0],
                              paints |-> 0]
                    /\ buf = [i \in 0..(w * h * 4 - 1) |-> 0]
    /\ first = None
    /\ alt = None
    /\ layer_surface = Idle /\ width = Idle /\ height = Idle
    /\ configured = Idle /\ pool = Idle /\ current_pos = Idle /\ file = Idle
    /\ mmap = Idle /\ file_len = Idle /\ locked = Idle /\ pools_created = Idle
    /\ buffers_created = Idle /\ last_buffer = Idle /\ pc = Idle
    /\ prev_pos = Idle /\ frames = Idle /\ steps = Idle /\ last_paint = Idle
    /\ last_event = Idle
    /\ calls = Idle /\ other_calls = Idle
    /\ ln = Idle

SpecDots == InitDots /\ [][NextPaint]_vars

\* draw.rs:42-60: the final colour of the cell c, as the bytes written
CellColor(cfg, g, pos, c) ==
    LET fg == to_le_bytes(cfg.fg_color)
        visit_count == get_visits(g, c[1], c[2])
        hl == to_le_bytes(cfg.active_color)
    IN  IF c = pos /\ display_active_field(cfg)
        THEN <<hl[1], hl[2], hl[3], 255>>
        ELSE <<Blend(fg[1], 100, visit_count), Blend(fg[2], 200, visit_count),
               Blend(fg[3], 255, visit_count), 255>>

\* the four bytes of the pixel (x, y) of an image w pixels wide
PixelAt(b, w, x, y) ==
    LET offset == (y * w + x) * 4
    IN  <<b[offset], b[offset + 1], b[offset + 2], b[offset + 3]>>

\* the pixel (x, y) lies within r of the centre of the cell c
InDisk(cfg, c, r, x, y) ==
    LET dx == x - c[1] * cfg.pixels_per_point
        dy == y - c[2] * cfg.pixels_per_point
    IN  dx * dx + dy * dy <= r * r

\* C11: for every cell, the paint gives the cell's final colour to exactly
\* the pixels of the image within config.dot_radius of the cell's centre,
\* whatever radius the configuration sets: the pixels inside the disk have
\* the colour, the pixels outside every disk have none of the dot colours.
C11_DotsOfConfiguredRadius ==
    pin.paints >= 1 =>
        \A x \in 0..(pin.width - 1), y \in 0..(pin.height - 1) :
            LET r == get_dot_radius(config)
                p == PixelAt(buf, pin.width, x, y)
                inside == {c \in Cells(grid) : InDisk(config, c, r, x, y)}
            IN  /\ \A c \in inside :
                       p = CellColor(config, grid, pin.current_pos, c)
                /\ inside = {} =>
                       \A c \in Cells(grid) :
                           p # CellColor(config, grid, pin.current_pos, c)

\* C12: every buffer given to the compositor lies within the pool it is
\* created from: its stride * height is at most the size the pool was
\* created with, also after configure events of other sizes.
C12_BufferWithinPool ==
    last_buffer # None =>
        last_buffer[1].stride * last_buffer[1].height
            <= last_buffer[1].pool_size

\* A buffer was created in the draw of a configure to a size other than the
\* one of the first draw, out of the pool of the first draw.
C12_Witness ==
    /\ last_buffer # None
    /\ last_event = "configure"
    /\ pools_created = 1
    /\ buffers_created >= 2
    /\ last_buffer[1].stride * last_buffer[1].height
           # last_buffer[1].pool_size

====
